---------------------------- MODULE Spec2Model ----------------------------
(***************************************************************************)
(* The MAKER step-resolution engine: first-to-ahead-by-k voting            *)
(* (maker/algorithms.py) driven by the step loop of execute_task           *)
(* (maker/execute.py).                                                     *)
(*                                                                         *)
(* Text is modelled as a sequence of lexemes (toks) followed by pad        *)
(* plain filler words; the lexemes are "{", "}", "[", "]", the object key  *)
(* "k", the numbers "1" and "2", the code fence "~~~" (three backticks),   *)
(* the plain word "w" and the word "ERROR".  JSON is the grammar           *)
(*     value ::= "1" | "2" | "[" value* "]" | "{" ("k" value)* "}"         *)
(*                                                                         *)
(* Six specifications: Spec is main / execute_task; BothSpec adds          *)
(* generate_solution (maker/algorithms.py) as a second entry point;        *)
(* SelectorSpec is create_step_type_selector called on its own;            *)
(* ValidatorSpec is the red-flag checker and the action parser applied to  *)
(* one response after another; SettleSpec is one round of do_voting whose  *)
(* oracle settles on one response; EstimateSpec is                         *)
(* TaskDecomposer.estimate_parameters (maker/decomposer.py).               *)
(***************************************************************************)
EXTENDS Integers, Sequences, FiniteSets

\* ------------------------------------------------------------- bounds
MaxK == 2
MaxSteps == 2
MaxVotes == 4
MaxCalls == 3
MaxSelSteps == 6
MaxValidations == 3
MaxEstimates == 3

\* ---------------------------------------------------- program constants
\* build_red_flag_checker: create_red_flag_checker(max_tokens=750)
max_tokens == 750

REQUIRED_CONFIG_KEYS ==
    {"task_description", "decomposition", "model", "k", "estimated_steps"}

\* ------------------------------------------------------------- values
Resp(toks, pad) == [toks |-> toks, pad |-> pad]

NoResponse == [toks |-> <<>>, pad |-> -1]

NoAction == [kind |-> "none", toks |-> <<>>, pad |-> 0]

\* The texts the oracle gateway may return.
Responses ==
    { Resp(<<"w">>, 0),                               \* plain text
      Resp(<<"1">>, 0),                               \* a JSON scalar
      Resp(<<"[", "1", "]">>, 0),                     \* a JSON list of scalars
      Resp(<<"{", "k", "1", "}">>, 0),                \* a JSON object
      Resp(<<"[", "{", "}", "]">>, 0),                \* a JSON list of objects
      Resp(<<"~~~", "1", "~~~">>, 0),                 \* fenced JSON scalar
      Resp(<<"ERROR", "{", "k", "1", "}">>, 0),       \* indicator + object
      Resp(<<"1">>, max_tokens) }                     \* 751 words

\* ------------------------------------------------- json.loads (lexemes)
RECURSIVE ValueEnd(_, _), ItemsEnd(_, _), MembersEnd(_, _)

\* Index just after the JSON value that starts at s[i]; 0 when there is none.
ValueEnd(s, i) ==
    IF i > Len(s) THEN 0
    ELSE IF s[i] \in {"1", "2"} THEN i + 1
    ELSE IF s[i] = "[" THEN ItemsEnd(s, i + 1)
    ELSE IF s[i] = "{" THEN MembersEnd(s, i + 1)
    ELSE 0

ItemsEnd(s, i) ==
    IF i > Len(s) THEN 0
    ELSE IF s[i] = "]" THEN i + 1
    ELSE LET e == ValueEnd(s, i) IN IF e = 0 THEN 0 ELSE ItemsEnd(s, e)

MembersEnd(s, i) ==
    IF i > Len(s) THEN 0
    ELSE IF s[i] = "}" THEN i + 1
    ELSE IF s[i] = "k"
         THEN LET e == ValueEnd(s, i + 1) IN IF e = 0 THEN 0 ELSE MembersEnd(s, e)
         ELSE 0

\* json.loads(s) succeeds: s is exactly one JSON value.
JsonOk(s) == ValueEnd(s, 1) = Len(s) + 1

JsonValue(s) == [kind |-> "json", toks |-> s, pad |-> 0]

\* ------------------------------------------ parse_action_from_response
\* re.search of the fenced-block pattern: the first fence that has a
\* later fence, and the (non-greedy) content up to the next fence.
FenceStarts(s) ==
    {i \in 1..Len(s) : s[i] = "~~~" /\ \E j \in (i + 1)..Len(s) : s[j] = "~~~"}

FenceContent(s) ==
    LET i == CHOOSE x \in FenceStarts(s) : \A y \in FenceStarts(s) : x <= y
        j == CHOOSE x \in (i + 1)..Len(s) :
                 s[x] = "~~~" /\ \A y \in (i + 1)..(x - 1) : s[y] # "~~~"
    IN  SubSeq(s, i + 1, j - 1)

\* re.search(r"\{[^{}]*\}"): the leftmost "{" closed by a "}" with no brace
\* in between.
BraceEnd(s, i) ==
    {j \in (i + 1)..Len(s) :
        s[j] = "}" /\ \A m \in (i + 1)..(j - 1) : s[m] \notin {"{", "}"}}

BraceStarts(s) == {i \in 1..Len(s) : s[i] = "{" /\ BraceEnd(s, i) # {}}

BraceMatch(s) ==
    LET i == CHOOSE x \in BraceStarts(s) : \A y \in BraceStarts(s) : x <= y
        j == CHOOSE x \in BraceEnd(s, i) : TRUE
    IN  SubSeq(s, i, j)

RawText(response) == [kind |-> "text", toks |-> response.toks, pad |-> response.pad]

parse_action_from_response(response) ==
    LET s == response.toks IN
    IF s = <<>> /\ response.pad = 0 THEN RawText(response)
    ELSE IF FenceStarts(s) # {} /\ JsonOk(FenceContent(s))
         THEN JsonValue(FenceContent(s))
    ELSE IF response.pad = 0 /\ JsonOk(s) THEN JsonValue(s)
    ELSE IF BraceStarts(s) # {} /\ JsonOk(BraceMatch(s))
         THEN JsonValue(BraceMatch(s))
    ELSE RawText(response)

\* ------------------------------------------------------ red-flag gate
\* len(response.split())
WordCount(response) == Len(response.toks) + response.pad

\* str.lower() on a lexeme
Lower(t) == IF t \in {"ERROR", "Error"} THEN "error" ELSE t

\* Faulty variant of base_checker: a response of exactly max_tokens words is
\* flagged too.
base_checker_atleast(response) == WordCount(response) >= max_tokens

\* create_red_flag_checker(max_tokens=750).check_red_flags
base_checker(response) == WordCount(response) > max_tokens

\* step_type.get("red_flag_indicators", [])
Indicators(name) == IF name = "solve" THEN {"ERROR"} ELSE {}

\* build_red_flag_checker(step_type).checker
checker(name, response) ==
    \/ base_checker(response)
    \/ \E ind \in Indicators(name) :
          \E i \in 1..Len(response.toks) : Lower(response.toks[i]) = Lower(ind)

\* ------------------------------------------------------------ do_voting
IsList(a) == a.kind = "json" /\ a.toks[1] = "["

\* action_key = tuple(action) if isinstance(action, list) else action
ActionKey(a) == IF IsList(a) THEN [a EXCEPT !.kind = "tuple"] ELSE a

\* Faulty variant of Hashable: raw text cannot be tallied.
Hashable_parsedonly(key) ==
    CASE key.kind = "tuple" ->
            \A i \in 2..(Len(key.toks) - 1) : key.toks[i] \in {"1", "2"}
      [] key.kind = "json" -> key.toks[1] # "{"
      [] OTHER -> FALSE

\* hash(action_key), which vote_counts[action_key] needs: a dict is not
\* hashable, a tuple is hashable when each of its elements is.
Hashable(key) ==
    CASE key.kind = "tuple" ->
            \A i \in 2..(Len(key.toks) - 1) : key.toks[i] \in {"1", "2"}
      [] key.kind = "json" -> key.toks[1] # "{"
      [] OTHER -> TRUE

\* vote_counts[action_key] += 1 on a defaultdict(int); vote_counts is kept in
\* insertion order, as a Python dict is.
Increment(vc, key) ==
    IF \E i \in 1..Len(vc) : vc[i].key = key
    THEN [i \in 1..Len(vc) |->
             IF vc[i].key = key THEN [vc[i] EXCEPT !.n = @ + 1] ELSE vc[i]]
    ELSE Append(vc, [key |-> key, n |-> 1])

\* max(vote_counts.values())
max_votes(vc) ==
    LET i == CHOOSE x \in 1..Len(vc) : \A y \in 1..Len(vc) : vc[x].n >= vc[y].n
    IN  vc[i].n

\* Faulty variant of second_max_votes: the runner-up is ignored.
second_max_votes_norunnerup(vc) == 0

\* Faulty variant of second_max_votes: the second highest distinct count is
\* taken, so a key tied with the leader is not seen.
second_max_votes_distinct(vc) ==
    LET below == {vc[j].n : j \in 1..Len(vc)} \ {max_votes(vc)}
    IN  IF below = {} THEN 0 ELSE CHOOSE v \in below : \A w \in below : v >= w

\* sorted(vote_counts.values(), reverse=True)[1] if len(vote_counts) > 1 else 0
second_max_votes(vc) ==
    IF Len(vc) > 1
    THEN LET i == CHOOSE x \in 1..Len(vc) : \A y \in 1..Len(vc) : vc[x].n >= vc[y].n
             rest == {vc[j].n : j \in (1..Len(vc)) \ {i}}
         IN  CHOOSE v \in rest : \A w \in rest : v >= w
    ELSE 0

\* Faulty variant of HasWinner: the lead must be more than k.
HasWinner_strict(vc, k) == max_votes(vc) > k + second_max_votes(vc)

\* if max_votes >= k + second_max_votes
\* Faulty variant of HasWinner: a lead of k - 1 is enough.
HasWinner_offbyone(vc, k) == max_votes(vc) + 1 >= k + second_max_votes(vc)

\* Faulty variant of HasWinner: a winner needs a second, confirming vote.
HasWinner_confirmed(vc, k) ==
    /\ max_votes(vc) >= 2
    /\ max_votes(vc) >= k + second_max_votes(vc)

HasWinner(vc, k) == max_votes(vc) >= k + second_max_votes(vc)

\* Faulty variant of winning_action: the first key of the dict is returned.
winning_action_firstkey(vc) ==
    LET c == vc[1].key
    IN  IF c.kind = "tuple" THEN [c EXCEPT !.kind = "json"] ELSE c

\* the first candidate, in the dict's order, with votes == max_votes;
\* list(candidate_action) if it is a tuple
winning_action(vc) ==
    LET i == CHOOSE x \in 1..Len(vc) :
                 /\ vc[x].n = max_votes(vc)
                 /\ \A y \in 1..(x - 1) : vc[y].n # max_votes(vc)
        c == vc[i].key
    IN  IF c.kind = "tuple" THEN [c EXCEPT !.kind = "json"] ELSE c

\* --------------------------------------------------------------- state
VARIABLES
    config,          \* the task configuration read from the file
    client,          \* whether the selector was created with a client
    oracle,          \* the text a constant oracle always returns, or NoResponse
    failed,          \* history: an oracle call has raised
    pc,              \* where main / execute_task stands
    step,            \* the loop variable of execute_task
    step_type_name,  \* the selector's choice for the current step
    reply,           \* the selection reply the selector has just read
    sel_calls,       \* history: calls made to the selection oracle
    vote_counts,     \* do_voting's tally, in insertion order
    votes,           \* history: the keys counted in the current round, in order
    roundCalls,      \* history: oracle calls of the current round (saturates)
    sampled,         \* history: some oracle call has been made
    response,        \* get_vote's last raw response
    action,          \* the winner do_voting returned
    actions,         \* execute_task's list of winners
    current_state,   \* the orchestrator's current state
    next_state,      \* the state get_vote last parsed, do_voting's second result
    states,          \* the state dicts execute_task has created, oldest first
    result,          \* what execute_task returned
    exc,             \* the exception that left execute_task
    intAt,           \* history: pc at which KeyboardInterrupt arrived
    winners,         \* history: the winners the rounds declared, in order
    model_fn,        \* the step type whose micro-agent the round samples
    check_fn,        \* the step type whose red-flag checker the round uses
    call_state,      \* the state passed to the last oracle call
    progress,        \* the progress lines printed so far, in order
    exit_code,       \* what main returned; -1 while it has not returned
    validated,       \* history: the validations made so far
    saved,           \* main has written the results file
    estimates        \* history: the parameter estimates made so far

vars == <<config, client, oracle, failed, pc, step, step_type_name, reply, sel_calls,
          vote_counts, votes, roundCalls, sampled, response, action, actions,
          current_state, next_state, states, result, exc, intAt, winners,
          model_fn, check_fn, call_state, progress, exit_code, validated,
          saved, estimates>>

StepTypeLists == {<<>>, <<"solve">>, <<"solve", "check">>}

PresentChoices ==
    {REQUIRED_CONFIG_KEYS} \cup {REQUIRED_CONFIG_KEYS \ {x} : x \in REQUIRED_CONFIG_KEYS}

\* Replies of the selection oracle, as lexemes; " " is whitespace.
SelectorReplies ==
    {<<"solve">>, <<"check">>, <<"plan">>, <<" ", "check", " ">>,
     <<"check", "w">>, <<"other">>, <<>>}

\* no selection reply is held
NoReply == <<"none">>

\* no state parsed yet
NoState == [current_step |-> -1, action_history |-> <<>>]

NoResult == [completed |-> FALSE, steps_completed |-> -1, actions |-> <<>>,
             final_state |-> [current_step |-> -1, action_history |-> <<>>]]

LoopPcs == {"select", "sample", "append", "fold", "progress"}

\* get_vote's loop, entered from execute_task or from generate_solution
SamplePcs == {"sample", "gs_sample"}

Init ==
    /\ config \in [k : 0..MaxK, estimated_steps : (-1)..MaxSteps,
                   step_types : StepTypeLists, present : PresentChoices]
    /\ client = TRUE
    /\ oracle \in Responses \cup {NoResponse}
    /\ failed = FALSE
    /\ pc = "load"
    /\ step = 0
    /\ step_type_name = "none"
    /\ reply = NoReply
    /\ sel_calls = 0
    /\ vote_counts = <<>>
    /\ votes = <<>>
    /\ roundCalls = 0
    /\ sampled = FALSE
    /\ response = NoResponse
    /\ action = NoAction
    /\ actions = <<>>
    /\ current_state = [current_step |-> 0, action_history |-> <<>>]
    /\ next_state = NoState
    /\ states = <<>>
    /\ result = NoResult
    /\ exc = "none"
    /\ intAt = "none"
    /\ winners = <<>>
    /\ model_fn = "none"
    /\ check_fn = "none"
    /\ call_state = NoState
    /\ progress = <<>>
    /\ exit_code = -1
    /\ validated = {}
    /\ saved = FALSE
    /\ estimates = {}

\* Faulty variant of ConfigAccepted: the required keys are not looked for.
ConfigAccepted_stepsonly(c) == c.step_types # <<>>

\* load_and_validate_config: only the presence of the keys and a non-empty
\* step_types are checked.
ConfigAccepted(c) ==
    /\ REQUIRED_CONFIG_KEYS \subseteq c.present
    /\ c.step_types # <<>>

\* main: config = load_and_validate_config(args.config), or return 1
LoadConfig ==
    /\ pc = "load"
    /\ pc' = IF ConfigAccepted(config) THEN "confirm" ELSE "config_error"
    /\ exit_code' = (IF ConfigAccepted(config) THEN exit_code ELSE 1)
    /\ UNCHANGED <<saved, estimates, model_fn, check_fn, call_state, progress, validated,
                   config, client, oracle, failed, step, step_type_name, vote_counts, votes, roundCalls,
                   sampled, response, action, actions, current_state, result,
                   exc, intAt, winners, reply, sel_calls, next_state, states>>

\* main: with --yes, or when the user answers "y", execute_task is called;
\* any other answer prints "Cancelled." and returns 0
Confirm ==
    /\ pc = "confirm"
    /\ \E proceed \in BOOLEAN :
          IF proceed
          THEN /\ pc' = "setup"
               /\ exit_code' = exit_code
          ELSE /\ pc' = "cancelled"
               /\ exit_code' = 0
    /\ UNCHANGED <<saved, estimates, model_fn, check_fn, call_state, progress, validated,
                   config, client, oracle, failed, step, step_type_name, vote_counts, votes, roundCalls,
                   sampled, response, action, actions, current_state, result,
                   exc, intAt, winners, reply, sel_calls, next_state, states>>

\* for step in range(num_steps): the pc after the loop variable becomes n
LoopHead(n) == IF n < config.estimated_steps THEN "select" ELSE "return"

\* execute_task up to the try: the state dict and the empty action list
Setup ==
    /\ pc = "setup"
    /\ current_state' = [current_step |-> 0, action_history |-> <<>>]
    /\ actions' = <<>>
    /\ states' = <<[current_step |-> 0, action_history |-> <<>>]>>
    /\ step' = 0
    /\ pc' = LoopHead(0)
    /\ UNCHANGED <<saved, estimates, model_fn, check_fn, call_state, progress, exit_code, validated,
                   config, client, oracle, failed, step_type_name, vote_counts, votes, roundCalls,
                   sampled, response, action, result, exc, intAt, winners,
                   reply, sel_calls, next_state>>

\* client = OpenRouterClient(api_key=api_key) raises ValueError (no API key);
\* main catches it, prints the error and returns 1
SetupFails ==
    /\ pc = "setup"
    /\ exc' = "ValueError"
    /\ pc' = "value_error"
    /\ exit_code' = 1
    /\ UNCHANGED <<saved, estimates, model_fn, check_fn, call_state, progress, validated,
                   config, client, oracle, failed, step, step_type_name, vote_counts, votes, roundCalls,
                   sampled, response, action, actions, current_state, result,
                   intAt, winners, reply, sel_calls, next_state, states>>

\* str.strip(): leading and trailing whitespace removed
RECURSIVE Strip(_)
Strip(s) ==
    IF s = <<>> THEN s
    ELSE IF Head(s) = " " THEN Strip(Tail(s))
    ELSE IF s[Len(s)] = " " THEN Strip(SubSeq(s, 1, Len(s) - 1))
    ELSE s

\* the selector asks the selection oracle: several names and a client
SelectorCalls(names, has_client) == Len(names) > 1 /\ has_client

\* Faulty variant of selector: the trimmed reply is returned unvalidated.
selector_unchecked(names, has_client, n, rp) ==
    IF Len(names) = 1 THEN names[1]
    ELSE IF ~has_client THEN names[(n % Len(names)) + 1]
    ELSE LET chosen == Strip(rp) IN
         IF chosen = <<>> THEN "" ELSE chosen[1]

\* Faulty variant of selector: without a client the first name is returned.
selector_norotation(names, has_client, n, rp) ==
    IF Len(names) = 1 THEN names[1]
    ELSE IF ~has_client THEN names[1]
    ELSE LET chosen == Strip(rp) IN
         IF \E i \in 1..Len(names) : chosen = <<names[i]>> THEN chosen[1]
         ELSE names[1]

\* create_step_type_selector(config, client): the name chosen at step n when
\* the selection oracle, if asked, replies rp
selector(names, has_client, n, rp) ==
    IF Len(names) = 1 THEN names[1]
    ELSE IF ~has_client THEN names[(n % Len(names)) + 1]
    ELSE LET chosen == Strip(rp) IN
         IF \E i \in 1..Len(names) : chosen = <<names[i]>> THEN chosen[1]
         ELSE names[1]

\* model_fn = micro_agents[step_type_name]: the micro-agent built for that
\* step type, named by the type
micro_agents(name) == name

\* Faulty variant of checkers: every step gets the first type's checker.
checkers_first(name) == "solve"

\* check_fn = checkers[step_type_name]: the checker built for that step type
checkers(name) == name

\* Faulty variant of SelectStep: the tally of the round before is kept.
SelectStep_keeptally ==
    /\ pc = "select"
    /\ LET called == SelectorCalls(config.step_types, client) IN
       \E rp \in (IF called THEN SelectorReplies ELSE {NoReply}) :
          /\ (called /\ oracle # NoResponse) => rp = <<"other">>
          /\ step_type_name' = selector(config.step_types, client, step, rp)
          /\ reply' = rp
          /\ sel_calls' = sel_calls + (IF called THEN 1 ELSE 0)
          /\ sampled' = (sampled \/ called)
    /\ pc' = "sample"
    /\ votes' = <<>>
    /\ roundCalls' = 0
    /\ response' = NoResponse
    /\ model_fn' = micro_agents(step_type_name')
    /\ check_fn' = checkers(step_type_name')
    /\ UNCHANGED <<saved, estimates, call_state, progress, exit_code, validated,
                   config, client, oracle, failed, step, action, actions, current_state, result,
                   intAt, winners, next_state, states, exc, vote_counts>>

\* step_type_name = selector(current_state, step); the lookups
\* micro_agents[step_type_name] and step_checkers[step_type_name]; then
\* do_voting starts with an empty tally
SelectStep ==
    /\ pc = "select"
    /\ LET called == SelectorCalls(config.step_types, client) IN
       \E rp \in (IF called THEN SelectorReplies ELSE {NoReply}) :
          /\ (called /\ oracle # NoResponse) => rp = <<"other">>
          /\ step_type_name' = selector(config.step_types, client, step, rp)
          /\ reply' = rp
          /\ sel_calls' = sel_calls + (IF called THEN 1 ELSE 0)
          /\ sampled' = (sampled \/ called)
    /\ IF \E i \in 1..Len(config.step_types) : config.step_types[i] = step_type_name'
       THEN /\ pc' = "sample"
            /\ exc' = exc
       ELSE /\ pc' = "raised"
            /\ exc' = "KeyError"
    /\ vote_counts' = <<>>
    /\ votes' = <<>>
    /\ roundCalls' = 0
    /\ response' = NoResponse
    /\ model_fn' = micro_agents(step_type_name')
    /\ check_fn' = checkers(step_type_name')
    /\ UNCHANGED <<saved, estimates, call_state, progress, exit_code, validated,
                   config, client, oracle, failed, step, action, actions, current_state, result,
                   intAt, winners, next_state, states>>

\* the selector's client.chat_completion raises
SelectFails ==
    /\ pc = "select"
    /\ SelectorCalls(config.step_types, client)
    /\ sel_calls' = sel_calls + 1
    /\ sampled' = TRUE
    /\ failed' = TRUE
    /\ exc' = "TransportError"
    /\ pc' = "raised"
    /\ UNCHANGED <<saved, estimates, model_fn, check_fn, call_state, progress, exit_code, validated,
                   config, client, oracle, step, step_type_name, vote_counts, votes, roundCalls,
                   response, action, actions, current_state, result, intAt,
                   winners, reply, next_state, states>>

\* Faulty variant of Counted: the red-flag gate is dropped.
Counted_nogate(name, r) == TRUE

\* get_vote: if not check_red_flags(response), the response is parsed and
\* returned to do_voting
Counted(name, r) == ~checker(name, r)

\* Faulty variant of round_state: the calls made so far are folded in.
round_state_moving == [current_state EXCEPT !.current_step = @ + roundCalls]

\* response = model(state): the state do_voting was called with
round_state == current_state

\* next_state = parse_next_state(response): execute_task passes a function
\* that returns the state of the round whatever the response; a caller of
\* generate_solution passes one that reads the state out of the response
parse_next_state(r) ==
    IF pc = "sample" THEN current_state ELSE [from |-> r]

\* One pass of get_vote's loop with the model's reply r, and, for a reply that
\* is not flagged, the rest of do_voting's loop body.
Sample(r) ==
    /\ pc \in SamplePcs
    /\ oracle # NoResponse => r = oracle
    /\ response' = r
    /\ roundCalls' = (IF roundCalls < MaxCalls THEN roundCalls + 1 ELSE roundCalls)
    /\ sampled' = TRUE
    /\ IF ~Counted(check_fn, r)
       THEN \* red flag: the loop continues and resamples
            UNCHANGED <<pc, vote_counts, votes, action, exc, winners, next_state>>
       ELSE LET key == ActionKey(parse_action_from_response(r)) IN
            IF ~Hashable(key)
            THEN \* vote_counts[action_key] raises TypeError
                 /\ exc' = "TypeError"
                 /\ pc' = "raised"
                 /\ next_state' = parse_next_state(r)
                 /\ UNCHANGED <<vote_counts, votes, action, winners>>
            ELSE /\ Len(votes) < MaxVotes
                 /\ next_state' = parse_next_state(r)
                 /\ vote_counts' = Increment(vote_counts, key)
                 /\ votes' = Append(votes, key)
                 /\ exc' = exc
                 /\ IF HasWinner(vote_counts', config.k)
                    THEN /\ action' = winning_action(vote_counts')
                         /\ winners' = Append(winners, action')
                         /\ pc' = (IF pc = "sample" THEN "append" ELSE "gs_assign")
                    ELSE UNCHANGED <<action, winners, pc>>
    /\ reply' = NoReply
    /\ call_state' = round_state
    /\ UNCHANGED <<saved, estimates, model_fn, check_fn, progress, exit_code, validated,
                   config, client, oracle, failed, step, step_type_name, actions, current_state,
                   result, intAt, sel_calls, states>>

\* Faulty variant of OracleFails: the failure is swallowed and the call retried.
OracleFails_retry ==
    /\ pc \in SamplePcs
    /\ reply' = NoReply
    /\ roundCalls' = (IF roundCalls < MaxCalls THEN roundCalls + 1 ELSE roundCalls)
    /\ sampled' = TRUE
    /\ failed' = TRUE
    /\ call_state' = round_state
    /\ UNCHANGED <<saved, estimates, model_fn, check_fn, progress, exit_code, validated,
                   config, client, oracle, pc, exc, step, step_type_name, vote_counts,
                   votes, response, action, actions, current_state, result,
                   intAt, winners, sel_calls, next_state, states>>

\* response = model(state) raises (client.chat_completion fails)
OracleFails ==
    /\ pc \in SamplePcs
    /\ roundCalls' = (IF roundCalls < MaxCalls THEN roundCalls + 1 ELSE roundCalls)
    /\ sampled' = TRUE
    /\ failed' = TRUE
    /\ exc' = "TransportError"
    /\ pc' = "raised"
    /\ reply' = NoReply
    /\ call_state' = round_state
    /\ UNCHANGED <<saved, estimates, model_fn, check_fn, progress, exit_code, validated,
                   config, client, oracle, step, step_type_name, vote_counts, votes, response,
                   action, actions, current_state, result, intAt, winners,
                   sel_calls, next_state, states>>

\* actions.append(action)
AppendAction ==
    /\ pc = "append"
    /\ actions' = Append(actions, action)
    /\ pc' = "fold"
    /\ UNCHANGED <<saved, estimates, model_fn, check_fn, call_state, progress, exit_code, validated,
                   config, client, oracle, failed, step, step_type_name, vote_counts, votes, roundCalls,
                   sampled, response, action, current_state, result, exc,
                   intAt, winners, reply, sel_calls, next_state, states>>

\* Faulty variant of updater: the action is put at the front of the history.
updater_prepend(state, a, step_number) ==
    [current_step |-> step_number,
     action_history |-> <<a>> \o state.action_history]

\* create_state_updater(config).updater: a deep copy with the step number set
\* and the action appended to the history
updater(state, a, step_number) ==
    [current_step |-> step_number,
     action_history |-> Append(state.action_history, a)]

\* Faulty variant of updater_objects: the dict passed in is written to.
updater_objects_inplace(objs, a, step_number) ==
    [objs EXCEPT ![Len(objs)] = updater(@, a, step_number)]

\* updater on the dicts that exist: copy.deepcopy(state) makes a new dict and
\* both writes go to it, so the dict passed in (the newest) stays as it was
updater_objects(objs, a, step_number) ==
    Append(objs, updater(objs[Len(objs)], a, step_number))

\* Faulty variant of FoldState: the state do_voting returned is taken.
FoldState_fromengine ==
    /\ pc = "fold"
    /\ current_state' = next_state
    /\ states' = Append(states, next_state)
    /\ pc' = "progress"
    /\ UNCHANGED <<saved, estimates, model_fn, check_fn, call_state, progress, exit_code, validated,
                   config, client, oracle, failed, step, step_type_name, vote_counts, votes, roundCalls,
                   sampled, response, action, actions, result, exc, intAt,
                   winners, reply, sel_calls, next_state>>

\* current_state = state_updater(current_state, action, step + 1)
FoldState ==
    /\ pc = "fold"
    /\ current_state' = updater(current_state, action, step + 1)
    /\ states' = updater_objects(states, action, step + 1)
    /\ pc' = "progress"
    /\ UNCHANGED <<saved, estimates, model_fn, check_fn, call_state, progress, exit_code, validated,
                   config, client, oracle, failed, step, step_type_name, vote_counts, votes, roundCalls,
                   sampled, response, action, actions, result, exc, intAt,
                   winners, reply, sel_calls, next_state>>

\* _print_step_progress(step, total, step_type, action): the line printed
_print_step_progress(n, name, a) == [step |-> n, step_type |-> name, action |-> a]

\* Faulty variant of Progress: the loop takes the same step again.
Progress_samestep ==
    /\ pc = "progress"
    /\ step' = step
    /\ pc' = LoopHead(step)
    /\ progress' = Append(progress, _print_step_progress(step + 1, step_type_name, action))
    /\ UNCHANGED <<saved, estimates, model_fn, check_fn, call_state, exit_code, validated,
                   config, client, oracle, failed, step_type_name, vote_counts, votes, roundCalls,
                   sampled, response, action, actions, current_state, result,
                   exc, intAt, winners, reply, sel_calls, next_state, states>>

\* _print_step_progress(...), then the loop variable advances
Progress ==
    /\ pc = "progress"
    /\ step' = step + 1
    /\ pc' = LoopHead(step + 1)
    /\ progress' = Append(progress, _print_step_progress(step + 1, step_type_name, action))
    /\ UNCHANGED <<saved, estimates, model_fn, check_fn, call_state, exit_code, validated,
                   config, client, oracle, failed, step_type_name, vote_counts, votes, roundCalls,
                   sampled, response, action, actions, current_state, result,
                   exc, intAt, winners, reply, sel_calls, next_state, states>>

\* Faulty variant of InterruptResult: the completed-run count is reported.
InterruptResult_allsteps ==
    [completed |-> FALSE, steps_completed |-> config.estimated_steps,
     actions |-> actions, final_state |-> current_state]

\* except KeyboardInterrupt: the partial result
InterruptResult ==
    [completed |-> FALSE, steps_completed |-> Len(actions),
     actions |-> actions, final_state |-> current_state]

\* KeyboardInterrupt arrives while the try block runs
Interrupt ==
    /\ pc \in LoopPcs
    /\ intAt' = pc
    /\ result' = InterruptResult
    /\ pc' = "returned"
    /\ reply' = NoReply
    /\ UNCHANGED <<saved, estimates, model_fn, check_fn, call_state, progress, exit_code, validated,
                   config, client, oracle, failed, step, step_type_name, vote_counts, votes, roundCalls,
                   sampled, response, action, actions, current_state, exc,
                   winners, sel_calls, next_state, states>>

\* the return after the loop
FinalResult ==
    [completed |-> TRUE, steps_completed |-> config.estimated_steps,
     actions |-> actions, final_state |-> current_state]

Return ==
    /\ pc = "return"
    /\ result' = FinalResult
    /\ pc' = "returned"
    /\ UNCHANGED <<saved, estimates, model_fn, check_fn, call_state, progress, exit_code, validated,
                   config, client, oracle, failed, step, step_type_name, vote_counts, votes, roundCalls,
                   sampled, response, action, actions, current_state, exc,
                   intAt, winners, reply, sel_calls, next_state, states>>

\* Faulty variant of MainExit: 0 is returned whatever the result.
MainExit_alwayszero ==
    /\ pc = "returned"
    /\ exit_code = -1
    /\ saved' = TRUE
    /\ exit_code' = 0
    /\ UNCHANGED <<estimates, model_fn, check_fn, call_state, progress, validated,
                   config, client, oracle, failed, pc, step, step_type_name, vote_counts, votes,
                   roundCalls, sampled, response, action, actions, current_state,
                   result, exc, intAt, winners, reply, sel_calls, next_state, states>>

\* main after execute_task has returned: the results file is written and
\* 0 if result["completed"] else 1 is returned
MainExit ==
    /\ pc = "returned"
    /\ exit_code = -1
    /\ saved' = TRUE
    /\ exit_code' = (IF result.completed THEN 0 ELSE 1)
    /\ UNCHANGED <<estimates, model_fn, check_fn, call_state, progress, validated,
                   config, client, oracle, failed, pc, step, step_type_name, vote_counts, votes,
                   roundCalls, sampled, response, action, actions, current_state,
                   result, exc, intAt, winners, reply, sel_calls, next_state, states>>

Next ==
    \/ LoadConfig
    \/ Confirm
    \/ Setup
    \/ SetupFails
    \/ SelectStep
    \/ SelectFails
    \/ \E r \in Responses : Sample(r)
    \/ OracleFails
    \/ AppendAction
    \/ FoldState
    \/ Progress
    \/ Interrupt
    \/ Return
    \/ MainExit

Spec == Init /\ [][Next]_vars

\* The program keeps running: whatever step it can take it takes.
FairSpec == Spec /\ WF_vars(Next)

\* ---------------------------------------------------- generate_solution
\* generate_solution(initial_state, model, k, check_red_flags, parse_action,
\* parse_next_state, num_steps), called directly: k and num_steps are the
\* config's k and estimated_steps, check_red_flags is the "solve" checker.
InitialGenState == [from |-> NoResponse]

GenInit ==
    /\ config \in [k : 0..MaxK, estimated_steps : (-1)..MaxSteps,
                   step_types : {<<"solve">>}, present : {REQUIRED_CONFIG_KEYS}]
    /\ client = TRUE
    /\ oracle \in Responses \cup {NoResponse}
    /\ failed = FALSE
    /\ pc = "gs_start"
    /\ step = 0
    /\ step_type_name = "solve"
    /\ reply = NoReply
    /\ sel_calls = 0
    /\ vote_counts = <<>>
    /\ votes = <<>>
    /\ roundCalls = 0
    /\ sampled = FALSE
    /\ response = NoResponse
    /\ action = NoAction
    /\ actions = <<>>
    /\ current_state = InitialGenState
    /\ next_state = InitialGenState
    /\ states = <<>>
    /\ result = NoResult
    /\ exc = "none"
    /\ intAt = "none"
    /\ winners = <<>>
    /\ model_fn = "solve"
    /\ check_fn = "solve"
    /\ call_state = InitialGenState
    /\ progress = <<>>
    /\ exit_code = -1
    /\ validated = {}
    /\ saved = FALSE
    /\ estimates = {}

\* for step in range(num_steps) of generate_solution
GenLoopHead(n) == IF n < config.estimated_steps THEN "gs_call" ELSE "gs_return"

\* actions = []; current_state = initial_state
GenStart ==
    /\ pc = "gs_start"
    /\ actions' = <<>>
    /\ current_state' = InitialGenState
    /\ step' = 0
    /\ pc' = GenLoopHead(0)
    /\ UNCHANGED <<saved, estimates, model_fn, check_fn, call_state, progress, exit_code, validated,
                   config, client, oracle, failed, step_type_name, vote_counts, votes, roundCalls,
                   sampled, response, action, result, exc, intAt, winners,
                   reply, sel_calls, next_state, states>>

\* action, next_state = do_voting(current_state, ...): the call, which starts
\* with an empty tally
GenCall ==
    /\ pc = "gs_call"
    /\ vote_counts' = <<>>
    /\ votes' = <<>>
    /\ roundCalls' = 0
    /\ response' = NoResponse
    /\ pc' = "gs_sample"
    /\ UNCHANGED <<saved, estimates, model_fn, check_fn, call_state, progress, exit_code, validated,
                   config, client, oracle, failed, step, step_type_name, sampled, action, actions,
                   current_state, result, exc, intAt, winners, reply,
                   sel_calls, next_state, states>>

\* Faulty variant of GenAssign: the state is not carried to the next round.
GenAssign_keepstate ==
    /\ pc = "gs_assign"
    /\ actions' = Append(actions, action)
    /\ step' = step + 1
    /\ pc' = GenLoopHead(step + 1)
    /\ UNCHANGED <<saved, estimates, model_fn, check_fn, call_state, progress, exit_code, validated,
                   config, client, oracle, failed, step_type_name, vote_counts, votes, roundCalls,
                   sampled, response, action, result, exc, intAt, winners,
                   reply, sel_calls, next_state, states, current_state>>

\* actions.append(action); current_state = next_state
GenAssign ==
    /\ pc = "gs_assign"
    /\ actions' = Append(actions, action)
    /\ current_state' = next_state
    /\ step' = step + 1
    /\ pc' = GenLoopHead(step + 1)
    /\ UNCHANGED <<saved, estimates, model_fn, check_fn, call_state, progress, exit_code, validated,
                   config, client, oracle, failed, step_type_name, vote_counts, votes, roundCalls,
                   sampled, response, action, result, exc, intAt, winners,
                   reply, sel_calls, next_state, states>>

\* return actions
GenReturn ==
    /\ pc = "gs_return"
    /\ pc' = "gs_returned"
    /\ UNCHANGED <<saved, estimates, model_fn, check_fn, call_state, progress, exit_code, validated,
                   config, client, oracle, failed, step, step_type_name, vote_counts, votes,
                   roundCalls, sampled, response, action, actions,
                   current_state, result, exc, intAt, winners, reply,
                   sel_calls, next_state, states>>

\* Both orchestrators of the code: main / execute_task and generate_solution.
BothInit == Init \/ GenInit

BothNext ==
    \/ Next
    \/ GenStart
    \/ GenCall
    \/ GenAssign
    \/ GenReturn

BothSpec == BothInit /\ [][BothNext]_vars

\* ------------------------------------------- the selector on its own
\* create_step_type_selector(config, client) called with or without a client,
\* and the selector it returns called for step 0, 1, 2, ...
SelectorNameLists ==
    {<<"solve">>, <<"solve", "check">>, <<"solve", "check", "plan">>}

SelInit ==
    /\ config \in [k : {1}, estimated_steps : {MaxSelSteps},
                   step_types : SelectorNameLists, present : {REQUIRED_CONFIG_KEYS}]
    /\ client \in BOOLEAN
    /\ oracle = NoResponse
    /\ failed = FALSE
    /\ pc = "sel_call"
    /\ step = 0
    /\ step_type_name = "none"
    /\ reply = NoReply
    /\ sel_calls = 0
    /\ vote_counts = <<>>
    /\ votes = <<>>
    /\ roundCalls = 0
    /\ sampled = FALSE
    /\ response = NoResponse
    /\ action = NoAction
    /\ actions = <<>>
    /\ current_state = [current_step |-> 0, action_history |-> <<>>]
    /\ next_state = NoState
    /\ states = <<>>
    /\ result = NoResult
    /\ exc = "none"
    /\ intAt = "none"
    /\ winners = <<>>
    /\ model_fn = "none"
    /\ check_fn = "none"
    /\ call_state = NoState
    /\ progress = <<>>
    /\ exit_code = -1
    /\ validated = {}
    /\ saved = FALSE
    /\ estimates = {}

\* selector(state, step) for the next step index
SelCall ==
    /\ pc = "sel_call"
    /\ step < MaxSelSteps
    /\ LET called == SelectorCalls(config.step_types, client) IN
       \E rp \in (IF called THEN SelectorReplies ELSE {NoReply}) :
          /\ step_type_name' = selector(config.step_types, client, step, rp)
          /\ reply' = rp
          /\ sel_calls' = sel_calls + (IF called THEN 1 ELSE 0)
          /\ sampled' = (sampled \/ called)
    /\ step' = step + 1
    /\ UNCHANGED <<saved, estimates, model_fn, check_fn, call_state, progress, exit_code, validated,
                   config, client, oracle, failed, pc, vote_counts, votes, roundCalls, response,
                   action, actions, current_state, next_state, states, result,
                   exc, intAt, winners>>

SelectorSpec == SelInit /\ [][SelCall]_vars

\* ------------------------------------------ the validator on its own
\* build_red_flag_checker(step_type) and parse_action_from_response applied
\* to one response after another, for either step type.
ValidatorTexts ==
    { Resp(<<>>, 0),                                         \* empty
      Resp(<<"w">>, 0),                                      \* plain text
      Resp(<<"1">>, 0),                                      \* JSON
      Resp(<<"{", "k", "1", "}">>, 0),                       \* JSON object
      Resp(<<"~~~", "1", "~~~">>, 0),                        \* fenced JSON
      Resp(<<"~~~", "w", "~~~", "{", "k", "1", "}">>, 0),    \* bad fence, object
      Resp(<<"{", "k", "1", "}", "~~~", "2", "~~~">>, 0),    \* object, fenced JSON
      Resp(<<"w", "{", "k", "2", "}">>, 1),                  \* object in text
      Resp(<<"w", "{", "k", "{", "k", "1", "}", "}">>, 1),   \* nested object in text
      Resp(<<"w", "{", "w", "}", "{", "k", "1", "}">>, 0),   \* non-JSON braces first
      Resp(<<"w", "[", "1", "]">>, 1),                       \* list in text
      Resp(<<"ERROR", "w">>, 0),                             \* indicator
      Resp(<<"Error", "w">>, 0),                             \* indicator, other case
      Resp(<<"w">>, max_tokens - 1),                         \* 750 words
      Resp(<<"w">>, max_tokens) }                            \* 751 words

ValInit ==
    /\ config \in [k : {1}, estimated_steps : {1},
                   step_types : {<<"solve", "check">>}, present : {REQUIRED_CONFIG_KEYS}]
    /\ client = TRUE
    /\ oracle = NoResponse
    /\ failed = FALSE
    /\ pc = "validate"
    /\ step = 0
    /\ step_type_name = "none"
    /\ reply = NoReply
    /\ sel_calls = 0
    /\ vote_counts = <<>>
    /\ votes = <<>>
    /\ roundCalls = 0
    /\ sampled = FALSE
    /\ response = NoResponse
    /\ action = NoAction
    /\ actions = <<>>
    /\ current_state = [current_step |-> 0, action_history |-> <<>>]
    /\ next_state = NoState
    /\ states = <<>>
    /\ result = NoResult
    /\ exc = "none"
    /\ intAt = "none"
    /\ winners = <<>>
    /\ model_fn = "none"
    /\ check_fn = "none"
    /\ call_state = NoState
    /\ progress = <<>>
    /\ exit_code = -1
    /\ validated = {}
    /\ saved = FALSE
    /\ estimates = {}

\* Faulty variant of Validate: the checker remembers that it was called
\* before and flags everything from its second call on.
Validate_remembering(name, r) ==
    /\ pc = "validate"
    /\ roundCalls < MaxValidations
    /\ check_fn' = checkers(name)
    /\ response' = r
    /\ action' = parse_action_from_response(r)
    /\ validated' = validated \cup
          {[response |-> r, name |-> name,
            flagged |-> (checker(check_fn', r) \/ roundCalls >= 1),
            action |-> action']}
    /\ roundCalls' = roundCalls + 1
    /\ UNCHANGED <<saved, estimates, model_fn, call_state, progress, exit_code, config, client, oracle, failed,
                   pc, step, step_type_name, reply, sel_calls, vote_counts,
                   votes, sampled, actions, current_state, next_state, states,
                   result, exc, intAt, winners>>

\* checkers[name](r) and parse_action_from_response(r), as get_vote applies
\* them to a response r; roundCalls counts the validations made
Validate(name, r) ==
    /\ pc = "validate"
    /\ roundCalls < MaxValidations
    /\ check_fn' = checkers(name)
    /\ response' = r
    /\ action' = parse_action_from_response(r)
    /\ validated' = validated \cup
          {[response |-> r, name |-> name, flagged |-> checker(check_fn', r),
            action |-> action']}
    /\ roundCalls' = roundCalls + 1
    /\ UNCHANGED <<saved, estimates, model_fn, call_state, progress, exit_code, config, client, oracle, failed,
                   pc, step, step_type_name, reply, sel_calls, vote_counts,
                   votes, sampled, actions, current_state, next_state, states,
                   result, exc, intAt, winners>>

ValNext == \E name \in {"solve", "check"}, r \in ValidatorTexts : Validate(name, r)

ValidatorSpec == ValInit /\ [][ValNext]_vars

\* ===================================================================
\* Properties
\* ===================================================================

\* How often key occurs in a sequence of counted votes.
\* ---- TaskDecomposer.estimate_parameters ----

\* A decomposition dict, as far as estimate_parameters reads it: whether it
\* has the key 'estimated_steps', and the value under it.
Decomposition(has, n) == [has |-> has, estimated_steps |-> n]

\* The step counts tried: around each threshold, and far from them.
EstimatedStepCounts ==
    {-1, 0, 1, 50, 99, 100, 101, 500, 999, 1000, 1001, 5000, 9999, 10000,
     10001, 50000}

Decompositions ==
    {Decomposition(TRUE, n) : n \in EstimatedStepCounts} \cup {Decomposition(FALSE, 0)}

\* decomposition.get('estimated_steps', 100)
GetEstimatedSteps(d) == IF d.has THEN d.estimated_steps ELSE 100

\* Faulty variant of estimate_parameters: the thresholds are inclusive.
estimate_parameters_inclusive(d) ==
    LET estimated_steps == GetEstimatedSteps(d)
        recommended_k ==
            IF estimated_steps <= 100 THEN 2
            ELSE IF estimated_steps <= 1000 THEN 3
            ELSE IF estimated_steps <= 10000 THEN 4
            ELSE 5
    IN  <<estimated_steps, recommended_k>>

\* TaskDecomposer.estimate_parameters: (estimated_steps, recommended_k)
estimate_parameters(d) ==
    LET estimated_steps == GetEstimatedSteps(d)
        recommended_k ==
            IF estimated_steps < 100 THEN 2
            ELSE IF estimated_steps < 1000 THEN 3
            ELSE IF estimated_steps < 10000 THEN 4
            ELSE 5
    IN  <<estimated_steps, recommended_k>>

EstInit ==
    /\ config \in [k : {1}, estimated_steps : {1}, step_types : {<<"solve">>},
                   present : {REQUIRED_CONFIG_KEYS}]
    /\ client = TRUE
    /\ oracle = NoResponse
    /\ failed = FALSE
    /\ pc = "estimate"
    /\ step = 0
    /\ step_type_name = "none"
    /\ reply = NoReply
    /\ sel_calls = 0
    /\ vote_counts = <<>>
    /\ votes = <<>>
    /\ roundCalls = 0
    /\ sampled = FALSE
    /\ response = NoResponse
    /\ action = NoAction
    /\ actions = <<>>
    /\ current_state = NoState
    /\ next_state = NoState
    /\ states = <<>>
    /\ result = NoResult
    /\ exc = "none"
    /\ intAt = "none"
    /\ winners = <<>>
    /\ model_fn = "none"
    /\ check_fn = "none"
    /\ call_state = NoState
    /\ progress = <<>>
    /\ exit_code = -1
    /\ validated = {}
    /\ saved = FALSE
    /\ estimates = {}

\* One call of estimate_parameters; what it was given and what it returned
\* are added to the history.
Estimate(d) ==
    /\ pc = "estimate"
    /\ Cardinality(estimates) < MaxEstimates
    /\ estimates' = estimates \cup
          {[decomposition |-> d,
            estimated_steps |-> estimate_parameters(d)[1],
            recommended_k |-> estimate_parameters(d)[2]]}
    /\ UNCHANGED <<saved, model_fn, check_fn, call_state, progress, exit_code, validated,
                   config, client, oracle, failed, pc, step, step_type_name, vote_counts, votes,
                   roundCalls, sampled, response, action, actions, current_state,
                   result, exc, intAt, winners, reply, sel_calls, next_state, states>>

EstNext == \E d \in Decompositions : Estimate(d)

EstimateSpec == EstInit /\ [][EstNext]_vars

CountIn(seq, key) == Cardinality({i \in 1..Len(seq) : seq[i] = key})

KeysIn(seq) == {seq[i] : i \in 1..Len(seq)}

\* Key a is at least k votes ahead of every other key counted in seq.
AheadBy(seq, a, k) ==
    /\ CountIn(seq, a) >= k
    /\ \A b \in KeysIn(seq) \ {a} : CountIn(seq, a) >= CountIn(seq, b) + k

SomeAhead(seq, k) == \E a \in KeysIn(seq) : AheadBy(seq, a, k)

Prefix(seq, n) == SubSeq(seq, 1, n)

\* The parsed action a tally key stands for.
ActionOf(key) == IF key.kind = "tuple" THEN [key EXCEPT !.kind = "json"] ELSE key

RoundReturned == pc \in {"append", "fold", "progress"}

\* C1: for k >= 1 do_voting returns at the first counted vote after which the
\* highest tally is at least k above the second highest, and at no earlier
\* vote: while the round still samples no prefix of its counted votes has a
\* key ahead by k, and when it has returned the whole sequence has the
\* returned action ahead by k while no shorter prefix has any key ahead.
C1_FirstAheadByK ==
    config.k >= 1 =>
        /\ pc = "sample" =>
              \A n \in 1..Len(votes) : ~SomeAhead(Prefix(votes, n), config.k)
        /\ RoundReturned =>
              /\ \E a \in KeysIn(votes) :
                    AheadBy(votes, a, config.k) /\ action = ActionOf(a)
              /\ \A n \in 1..(Len(votes) - 1) :
                    ~SomeAhead(Prefix(votes, n), config.k)

\* C1 witness: k = 2 and the counted votes A, B, A, A; A is returned after the
\* fourth vote.
C1_Witness ==
    /\ config.k = 2
    /\ pc = "append"
    /\ Len(votes) = 4
    /\ votes[1] # votes[2]
    /\ votes[3] = votes[1]
    /\ votes[4] = votes[1]
    /\ action = ActionOf(votes[1])

\* A step of get_vote's loop that received a reply: not the interrupt, not a
\* failing oracle call.
ReplyStep == pc = "sample" /\ intAt' = "none" /\ ~failed'

\* C2: a reply the red-flag checker of the step's type flags leaves every
\* tally entry as it was, whether or not the reply parses to an action.
C2_FlaggedNeverCounted ==
    [][(ReplyStep /\ checker(step_type_name, response'))
          => (vote_counts' = vote_counts /\ votes' = votes)]_vars

\* C2 witness: a flagged reply that parses to a JSON value has been seen in a
\* round whose tally is not empty.
C2_Witness ==
    /\ pc = "sample"
    /\ response # NoResponse
    /\ checker(step_type_name, response)
    /\ parse_action_from_response(response).kind = "json"
    /\ Len(vote_counts) > 0

\* The tally entry of key in vote_counts (0 when it has none).
TallyOf(vc, key) ==
    IF \E i \in 1..Len(vc) : vc[i].key = key
    THEN (vc[CHOOSE i \in 1..Len(vc) : vc[i].key = key]).n
    ELSE 0

\* C3: every reply that is not flagged adds exactly one to the tally entry
\* keyed by its parsed action, whatever the action's shape; tallying never
\* fails.
C3_EveryShapeTallied ==
    [][(ReplyStep /\ ~checker(step_type_name, response'))
          => LET key == ActionKey(parse_action_from_response(response')) IN
             /\ exc' = "none"
             /\ TallyOf(vote_counts', key) = TallyOf(vote_counts, key) + 1]_vars

ObjectText == Resp(<<"{", "k", "1", "}">>, 0)

RunEnded == pc \in {"returned", "raised"}

\* C4: with an oracle that returns the same unflagged JSON-object text on
\* every call and no interrupt, execute_task returns completed=True,
\* steps_completed = estimated_steps and that many actions.
C4_ObjectOracleCompletes ==
    (/\ oracle = ObjectText
     /\ config.k >= 1
     /\ config.estimated_steps >= 1
     /\ RunEnded
     /\ intAt = "none"
     /\ ~failed) =>
        /\ pc = "returned"
        /\ result.completed
        /\ result.steps_completed = config.estimated_steps
        /\ Len(result.actions) = config.estimated_steps

C6_BadParametersRejected ==
    (config.k < 1 \/ config.estimated_steps < 1) =>
        /\ ~sampled
        /\ pc \notin {"sample", "append", "fold", "progress", "returned"}

\* C7: every voting round ends: a winner is declared or the round fails.
C7_RoundEnds == [](pc = "sample" => <>(pc # "sample"))

\* C8: when an oracle call fails after n >= 1 steps were won, the caller still
\* receives a result reporting those n steps and their winners.
C8_FailureKeepsWonSteps ==
    (failed /\ Len(actions) >= 1) =>
        /\ pc = "returned"
        /\ result.steps_completed = Len(actions)
        /\ result.actions = actions

\* C9: an exception of the oracle call is neither caught nor retried: it
\* leaves execute_task, the failing round has no winner, and no further oracle
\* call (of this round or a later step) or step follows.
C9_FailurePropagates ==
    failed =>
        /\ pc = "raised"
        /\ exc = "TransportError"
        /\ result = NoResult
        /\ Len(winners) = step
        /\ ~ENABLED Next

\* C9 witness: the oracle failed in a round that had counted votes, with a
\* later step still to run.
C9_Witness ==
    /\ failed
    /\ step_type_name # "none"
    /\ Len(votes) > 0
    /\ step + 1 < config.estimated_steps

\* C10: in every result execute_task returns the length of actions equals
\* steps_completed.
C10_ActionsMatchCount ==
    pc = "returned" => Len(result.actions) = result.steps_completed

\* C11: for k >= 1, when do_voting has returned exactly one key of the tally
\* holds the highest count, and the returned action is that key's action, so
\* the order in which the tally is walked cannot change the winner.
C11_UniqueMaxAtReturn ==
    (config.k >= 1 /\ RoundReturned) =>
        /\ Cardinality({i \in 1..Len(vote_counts) :
                           vote_counts[i].n = max_votes(vote_counts)}) = 1
        /\ \A i \in 1..Len(vote_counts) :
              vote_counts[i].n = max_votes(vote_counts)
                  => action = ActionOf(vote_counts[i].key)

\* C11 witness: a round with k = 2 returns with at least two keys in the
\* tally, the winner being the second key inserted (votes B, A, A, A).
C11_Witness ==
    /\ config.k = 2
    /\ pc = "append"
    /\ Len(vote_counts) >= 2
    /\ vote_counts[1].n < max_votes(vote_counts)
    /\ action = ActionOf(vote_counts[2].key)

\* C12: steps are resolved one at a time, in increasing order and once each.
\* Whenever execute_task is selecting or sampling for step i, exactly i
\* winners have been declared, all i are in the action list and folded into
\* the state, and i is below the number of steps; once the round of step i
\* has returned there are i + 1 winners. The step index only ever moves from
\* i to i + 1, and only after the winner of step i has been folded.
C12_StepsInOrder ==
    /\ [](/\ pc \in {"select", "sample"} =>
              /\ step >= 0 /\ step < config.estimated_steps
              /\ Len(winners) = step
              /\ actions = winners
              /\ current_state.current_step = step
              /\ current_state.action_history = winners
          /\ RoundReturned => Len(winners) = step + 1)
    /\ [][/\ step' # step =>
              /\ step' = step + 1
              /\ pc = "progress"
              /\ current_state.action_history = winners
              /\ Len(winners) = step'
          /\ winners' # winners => Len(winners) = step]_vars

\* C12 witness: the oracle is being sampled for step 1 after step 0's winner
\* was declared and folded.
C12_Witness ==
    /\ pc = "sample"
    /\ step = 1
    /\ roundCalls >= 1
    /\ Len(winners) = 1
    /\ current_state.action_history = winners

\* C13: the state updater never changes the state it is given. Every state
\* dict execute_task has created still holds the step number and the history
\* it was created with (dict i: step i - 1 and the first i - 1 winners), each
\* fold has made one more dict, the newest being the current state, and no
\* step of the program alters a dict that exists.
C13_UpdaterLeavesArgument ==
    /\ [](states # <<>> =>
              /\ \A i \in 1..Len(states) :
                    /\ states[i].current_step = i - 1
                    /\ Len(winners) >= i - 1
                    /\ states[i].action_history = SubSeq(winners, 1, i - 1)
              /\ states[Len(states)] = current_state
              /\ Len(states) = current_state.current_step + 1)
    /\ [][\A i \in 1..Len(states) :
              /\ Len(states') >= i
              /\ states'[i] = states[i]]_vars

\* C13 witness: after the second fold the dict passed to the first round still
\* has step 0 and an empty history, and the dict passed to the second round
\* still has step 1 and one action.
C13_Witness ==
    /\ pc = "progress"
    /\ Len(states) = 3
    /\ states[1] = [current_step |-> 0, action_history |-> <<>>]
    /\ states[2] = [current_step |-> 1, action_history |-> <<winners[1]>>]
    /\ states[3].action_history = winners

\* C14: folding the n-th winner (n from 1) gives a state whose current_step
\* is n and whose history is the previous history with that winner added at
\* the end; so the state always holds as many winners as its step number
\* says, in the order the steps declared them.
C14_FoldAppendsWinner ==
    /\ [][(pc = "fold" /\ pc' = "progress") =>
              /\ current_state'.current_step = Len(winners)
              /\ current_state'.action_history =
                     Append(current_state.action_history, winners[Len(winners)])]_vars
    /\ [](/\ current_state.current_step = Len(current_state.action_history)
          /\ Len(winners) >= Len(current_state.action_history)
          /\ current_state.action_history =
                 SubSeq(winners, 1, Len(current_state.action_history)))

\* C14 witness: two folds from the empty history, of two different winners;
\* the history holds both in step order and current_step is 2.
C14_Witness ==
    /\ pc = "progress"
    /\ current_state.current_step = 2
    /\ Len(winners) = 2
    /\ winners[1] # winners[2]
    /\ current_state.action_history = <<winners[1], winners[2]>>

\* An orchestrator has just set the state for the next step.
StateHandedOn ==
    \/ pc = "progress"
    \/ pc \in {"gs_call", "gs_return"} /\ step >= 1

C16_TallyIsPerRound ==
    (pc = "sample" \/ RoundReturned) =>
        /\ \A i \in 1..Len(vote_counts) :
              vote_counts[i].n = CountIn(votes, vote_counts[i].key)
        /\ KeysIn(votes) = {vote_counts[i].key : i \in 1..Len(vote_counts)}
        /\ roundCalls = 0 => vote_counts = <<>>

\* C16 witness: with k = 2 the round of step 1 has counted one vote, for an
\* action other than the winner of step 0, and the tally holds that one vote
\* only.
C16_Witness ==
    /\ config.k = 2
    /\ pc = "sample"
    /\ step = 1
    /\ Len(votes) = 1
    /\ ActionOf(votes[1]) # winners[1]
    /\ Len(vote_counts) = 1
    /\ vote_counts[1].n = 1

\* The tally do_voting builds from a sequence of counted votes alone.
RECURSIVE TallyFrom(_)
TallyFrom(seq) ==
    IF seq = <<>> THEN <<>>
    ELSE Increment(TallyFrom(Prefix(seq, Len(seq) - 1)), seq[Len(seq)])

\* C17: the outcome of a round depends only on the subsequence of responses
\* that are not flagged. A flagged response costs exactly one more oracle
\* call and changes nothing else: not the tally, the counted votes, the state
\* or the position in the round; a counted response costs one call and adds
\* one vote. The tally, whether the round has returned, and the winner are
\* what the counted votes alone give, whatever flagged responses came between.
C17_OnlyCountedResponsesMatter ==
    /\ []((pc = "sample" \/ RoundReturned) =>
              /\ vote_counts = TallyFrom(votes)
              /\ RoundReturned =>
                    /\ HasWinner(TallyFrom(votes), config.k)
                    /\ action = winning_action(TallyFrom(votes))
              /\ (pc = "sample" /\ votes # <<>>) =>
                    ~HasWinner(TallyFrom(votes), config.k))
    /\ [][ReplyStep =>
              IF checker(step_type_name, response')
              THEN /\ votes' = votes
                   /\ vote_counts' = vote_counts
                   /\ pc' = pc
                   /\ current_state' = current_state
                   /\ step_type_name' = step_type_name
                   /\ roundCalls < MaxCalls => roundCalls' = roundCalls + 1
              ELSE pc' # "raised" =>
                   /\ votes' = Append(votes, ActionKey(parse_action_from_response(response')))
                   /\ roundCalls < MaxCalls => roundCalls' = roundCalls + 1]_vars

\* C17 witness: k = 1, a flagged response and then a valid one; the round has
\* its winner after one counted vote and two oracle calls.
C17_Witness ==
    /\ config.k = 1
    /\ pc = "append"
    /\ roundCalls = 2
    /\ Len(votes) = 1
    /\ ~checker(step_type_name, response)
    /\ action = parse_action_from_response(response)

\* The keys of the round's non-flagged responses: those counted, and the one
\* whose tallying raised.
NonFlaggedKeys ==
    KeysIn(votes) \cup
    (IF exc = "TypeError"
     THEN {ActionKey(parse_action_from_response(response))} ELSE {})

\* C18: if every non-flagged response of a round yields the same action, then
\* with k >= 1 the round returns that action after exactly k counted votes
\* (after one sample when k = 1): it has not failed, it is still sampling
\* only while fewer than k votes are counted, and when it has returned k
\* votes are counted and the action is the one they name.
C18_UnanimousReturnsAfterK ==
    (config.k >= 1 /\ Cardinality(NonFlaggedKeys) <= 1) =>
        /\ exc # "TypeError"
        /\ pc = "sample" => Len(votes) < config.k
        /\ RoundReturned =>
              /\ Len(votes) = config.k
              /\ action = ActionOf(votes[1])

\* n whitespace lexemes
Spaces(n) == [i \in 1..n |-> " "]

\* The configured names that a selection reply is, up to surrounding
\* whitespace.
NamedBy(rp, names) ==
    {names[i] : i \in {j \in 1..Len(names) :
        \E a, b \in 0..Len(rp) : rp = Spaces(a) \o <<names[j]>> \o Spaces(b)}}

\* C19: with several step types and a selection oracle, the selector returns
\* the oracle's reply, trimmed, when that is exactly a configured name, and
\* the first configured name otherwise. The name is always a configured one:
\* the lookup of the step's micro-agent and checker never raises, whatever
\* the reply.
C19_SelectorFallsBack ==
    /\ exc # "KeyError"
    /\ (pc = "sample" \/ RoundReturned) =>
          \E i \in 1..Len(config.step_types) : config.step_types[i] = step_type_name
    /\ (pc = "sample" /\ roundCalls = 0 /\ Len(config.step_types) > 1) =>
          /\ reply # NoReply
          /\ IF NamedBy(reply, config.step_types) # {}
             THEN step_type_name \in NamedBy(reply, config.step_types)
             ELSE step_type_name = config.step_types[1]

\* C19 witness: two step types, the selection oracle replies with a name that
\* is not configured, and the round starts with the first configured type.
C19_Witness ==
    /\ config.step_types = <<"solve", "check">>
    /\ pc = "sample"
    /\ reply = <<"plan">>
    /\ step_type_name = "solve"
    /\ exc = "none"

\* C20: with exactly one configured step type the selector returns that type
\* for every step and never calls the selection oracle; with several types
\* and no client it returns, for step index i, the name at position
\* i mod (number of types) in configuration order, again without a call.
\* (step is the index of the next call, so the last call was for step - 1.)
C20_ConstantOrRoundRobin ==
    step >= 1 =>
        /\ Len(config.step_types) = 1 =>
              /\ step_type_name = config.step_types[1]
              /\ sel_calls = 0
        /\ (Len(config.step_types) > 1 /\ ~client) =>
              /\ step_type_name =
                     config.step_types[((step - 1) % Len(config.step_types)) + 1]
              /\ sel_calls = 0

\* C20 witness: three step types and no client; the call for step 4 has
\* returned the second name (4 mod 3 = 1, counting positions from 0).
C20_Witness ==
    /\ config.step_types = <<"solve", "check", "plan">>
    /\ ~client
    /\ step = 5
    /\ step_type_name = "check"
    /\ sel_calls = 0

\* The text has a word that is the indicator when case is ignored.
ContainsIgnoringCase(text, ind) ==
    \E i \in 1..Len(text.toks) :
        \/ text.toks[i] = ind
        \/ {text.toks[i], ind} \subseteq {"ERROR", "Error", "error"}

\* C21: the checker built for a step type flags a response if and only if
\* the response has more than 750 words or contains, case ignored, one of the
\* step type's indicators; so for a step type without indicators ("check") a
\* response of at most 750 words is never flagged.
C21_FlaggedIffLongOrIndicator ==
    \A v \in validated :
        /\ v.flagged <=>
              \/ Len(v.response.toks) + v.response.pad >= 751
              \/ \E ind \in Indicators(v.name) : ContainsIgnoringCase(v.response, ind)
        /\ (Indicators(v.name) = {} /\ Len(v.response.toks) + v.response.pad <= 750)
              => ~v.flagged

\* C21 witness: one history holds a 750-word response that was passed, a
\* response with the indicator in another case that the "solve" checker
\* flagged, and the same text passed by the checker of the step type
\* without indicators.
C21_Witness ==
    /\ [response |-> Resp(<<"Error", "w">>, 0), name |-> "solve", flagged |-> TRUE,
        action |-> RawText(Resp(<<"Error", "w">>, 0))] \in validated
    /\ [response |-> Resp(<<"Error", "w">>, 0), name |-> "check", flagged |-> FALSE,
        action |-> RawText(Resp(<<"Error", "w">>, 0))] \in validated
    /\ \E v \in validated :
          v.response = Resp(<<"w">>, max_tokens - 1) /\ ~v.flagged

\* Opening braces minus closing braces in s[i..j].
Depth(s, i, j) ==
    Cardinality({m \in i..j : s[m] = "{"}) - Cardinality({m \in i..j : s[m] = "}"})

\* Where the balanced bracketed substring that opens at s[i] closes.
BalancedEnds(s, i) ==
    {j \in (i + 1)..Len(s) :
        Depth(s, i, j) = 0 /\ \A m \in i..(j - 1) : Depth(s, i, m) > 0}

BalancedStarts(s) == {i \in 1..Len(s) : s[i] = "{" /\ BalancedEnds(s, i) # {}}

\* The first balanced bracketed substring of s.
FirstBalanced(s) ==
    LET i == CHOOSE x \in BalancedStarts(s) : \A y \in BalancedStarts(s) : x <= y
        j == CHOOSE x \in BalancedEnds(s, i) : TRUE
    IN  SubSeq(s, i, j)

\* The action the three attempts give, in order: the content of a fenced
\* block, the whole text, the first balanced bracketed substring; else the
\* text itself.
FirstAttemptThatParses(text) ==
    LET s == text.toks IN
    IF FenceStarts(s) # {} /\ JsonOk(FenceContent(s)) THEN JsonValue(FenceContent(s))
    ELSE IF text.pad = 0 /\ JsonOk(s) THEN JsonValue(s)
    ELSE IF BalancedStarts(s) # {} /\ JsonOk(FirstBalanced(s))
         THEN JsonValue(FirstBalanced(s))
    ELSE RawText(text)

\* C22: parse_action_from_response returns the value of the first attempt
\* that parses, the attempts being, in order, the content of a fenced code
\* block, the whole text, and the first bracketed substring of the text; if
\* none parses it returns the text itself.
C22_FirstParsingAttemptWins ==
    \A v \in validated : v.action = FirstAttemptThatParses(v.response)

\* The oracle always returns one plain text that no step type's checker flags.
PlainTextOracle ==
    /\ oracle # NoResponse
    /\ parse_action_from_response(oracle) = RawText(oracle)
    /\ \A i \in 1..Len(config.step_types) : ~checker(config.step_types[i], oracle)

\* C23: a response that does not parse is not an error, its raw text is
\* tallied. With k = 1 and an oracle that always returns the same non-flagged
\* plain text no round fails to tally, every round returns at its first
\* sample with that text, and the result of a run that was not interrupted is
\* complete with the text as the action of every step.
C23_PlainTextIsTallied ==
    (PlainTextOracle /\ config.k = 1) =>
        /\ exc \notin {"TypeError", "KeyError"}
        /\ pc = "sample" => votes = <<>>
        /\ RoundReturned => (roundCalls = 1 /\ action = RawText(oracle))
        /\ \A i \in 1..Len(actions) : actions[i] = RawText(oracle)
        /\ (pc = "returned" /\ intAt = "none") =>
              /\ result.completed
              /\ \A i \in 1..config.estimated_steps :
                    /\ i <= Len(result.actions)
                    /\ result.actions[i] = RawText(oracle)

\* C23 witness: two steps, k = 1, the oracle always answers the plain word;
\* the run completes with that text as both actions.
C23_Witness ==
    /\ PlainTextOracle
    /\ config.k = 1
    /\ config.estimated_steps = 2
    /\ pc = "returned"
    /\ result.completed
    /\ result.actions = <<RawText(oracle), RawText(oracle)>>

\* Every required key is in the config file and step_types is not empty.
WellFormedConfig ==
    /\ \A key \in {"task_description", "decomposition", "model", "k", "estimated_steps"} :
          key \in config.present
    /\ Len(config.step_types) >= 1

\* C24: a configuration gets past load_and_validate_config only if all five
\* required keys are present and step_types is non-empty; for any other
\* configuration main returns 1 and execute_task is never called: no oracle
\* call, no state, no action, no result.
C24_BadConfigNeverRuns ==
    /\ pc \notin {"load", "config_error"} => WellFormedConfig
    /\ (pc # "load" /\ ~WellFormedConfig) =>
          /\ pc = "config_error"
          /\ exit_code = 1
          /\ ~sampled
          /\ sel_calls = 0
          /\ states = <<>>
          /\ actions = <<>>
          /\ progress = <<>>
          /\ result = NoResult
    /\ pc = "config_error" => ~WellFormedConfig

\* C24 witness: the file has every key but an empty step_types; main has
\* returned 1.
C24_Witness ==
    /\ config.present = REQUIRED_CONFIG_KEYS
    /\ config.step_types = <<>>
    /\ pc = "config_error"
    /\ exit_code = 1

\* C25: one progress line per completed step, in step order, printed after
\* the step's winner was appended and folded; and in every result
\* execute_task returns the number of lines printed equals steps_completed.
C25_ProgressMatchesSteps ==
    /\ \A i \in 1..Len(progress) :
          /\ progress[i].step = i
          /\ i <= Len(actions)
          /\ progress[i].action = actions[i]
          /\ i <= Len(current_state.action_history)
    /\ pc \in {"select", "sample", "return"} => Len(progress) = Len(actions)
    /\ pc = "returned" => Len(progress) = result.steps_completed

C27_AgentAndCheckerOfSelectedType ==
    /\ []((pc = "sample" \/ RoundReturned) =>
              /\ model_fn = step_type_name
              /\ check_fn = step_type_name)
    /\ [][ReplyStep =>
              ((votes' = votes /\ pc' = pc) <=> checker(step_type_name, response'))]_vars

\* C27 witness: the selector chose "check"; a response holding the indicator
\* of "solve" was sampled from the "check" agent and passed the "check"
\* checker, which has no indicators.
C27_Witness ==
    /\ step_type_name = "check"
    /\ model_fn = "check"
    /\ check_fn = "check"
    /\ response = Resp(<<"ERROR", "{", "k", "1", "}">>, 0)
    /\ exc = "TypeError"

\* C28: every oracle call of a voting round, resamples after a red flag
\* included, receives the same state: the one that folds the winners of all
\* earlier steps. During step i of execute_task that state has step number i
\* and exactly the first i winners as its history.
C28_SameStateForEveryCall ==
    /\ []((roundCalls >= 1 /\ (pc = "sample" \/ RoundReturned)) =>
              /\ call_state.current_step = step
              /\ Len(call_state.action_history) = step
              /\ Len(winners) >= step
              /\ call_state.action_history = SubSeq(winners, 1, step))
    /\ [][(pc = "sample" /\ roundCalls >= 1) => call_state' = call_state]_vars

\* C28 witness: in the round of step 1 a flagged response was resampled; the
\* second call got the state holding the winner of step 0, as the first did.
C28_Witness ==
    /\ pc = "sample"
    /\ step = 1
    /\ roundCalls = 2
    /\ votes = <<>>
    /\ checker(step_type_name, response)
    /\ call_state = [current_step |-> 1, action_history |-> <<winners[1]>>]

\* do_voting has returned to its caller, execute_task or generate_solution.
VotingReturned == RoundReturned \/ pc = "gs_assign"

\* C29: for k >= 1 the action do_voting returns is the action of the last
\* counted sample of the round, so the next_state returned with it was
\* parsed from a response that voted for the winner.
C29_WinnerIsLastCountedVote ==
    (config.k >= 1 /\ VotingReturned) =>
        /\ votes # <<>>
        /\ action = ActionOf(votes[Len(votes)])
        /\ ~checker(check_fn, response)
        /\ action = parse_action_from_response(response)
        /\ pc = "gs_assign" => next_state = [from |-> response]

\* C29 witness: generate_solution's round with k = 2 returns after four
\* counted votes, the first for another action than the last; the state
\* returned was parsed from the last response.
C29_Witness ==
    /\ config.k = 2
    /\ pc = "gs_assign"
    /\ Len(votes) = 4
    /\ votes[1] # votes[4]
    /\ action = ActionOf(votes[4])
    /\ next_state = [from |-> response]

\* The highest count in seq of a key other than a; 0 when there is none.
BestOther(seq, a) ==
    LET counts == {CountIn(seq, b) : b \in KeysIn(seq) \ {a}} \cup {0}
    IN  CHOOSE c \in counts : \A d \in counts : c >= d

\* C30: for k >= 1, when do_voting returns, the returned action is one that
\* was sampled and counted in the round, and its tally is above the highest
\* tally of any other key by exactly k.
C30_LeadIsExactlyK ==
    (config.k >= 1 /\ RoundReturned) =>
        \E a \in KeysIn(votes) :
            /\ action = ActionOf(a)
            /\ CountIn(votes, a) - BestOther(votes, a) = config.k

\* C30 witness: with k = 2 a round has returned with the winner at 3 votes
\* and one other key at 1.
C30_Witness ==
    /\ config.k = 2
    /\ pc = "fold"
    /\ \E a \in KeysIn(votes) :
          /\ action = ActionOf(a)
          /\ CountIn(votes, a) = 3
          /\ BestOther(votes, a) = 1

\* C31: in every result execute_task returns, completed or interrupted,
\* final_state's action_history equals actions and final_state's
\* current_step equals steps_completed.
C31_FinalStateMatchesResult ==
    pc = "returned" =>
        /\ result.final_state.action_history = result.actions
        /\ result.final_state.current_step = result.steps_completed

\* C33: a round of do_voting with k >= 1 never returns before k votes have
\* been counted, and when it returns the winner has at least r + k votes for
\* every other action with r votes.
C33_NoReturnBeforeKVotes ==
    (config.k >= 1 /\ VotingReturned) =>
        /\ Len(votes) >= config.k
        /\ \E a \in KeysIn(votes) :
              /\ action = ActionOf(a)
              /\ CountIn(votes, a) >= config.k
              /\ \A b \in KeysIn(votes) \ {a} :
                    CountIn(votes, a) >= CountIn(votes, b) + config.k

\* C33 witness: with k = 2 a round has returned although a second action
\* received one vote; the winner has three.
C33_Witness ==
    /\ config.k = 2
    /\ pc = "append"
    /\ \E a, b \in KeysIn(votes) :
          /\ a # b
          /\ action = ActionOf(a)
          /\ CountIn(votes, b) = 1
          /\ CountIn(votes, a) = 3

\* C34: with k = 0 do_voting returns after the first counted sample,
\* whatever it is: no round is still sampling with a vote counted, and a
\* returned round counted exactly one vote, which is the winner.
C34_ZeroKDecidesOnOneVote ==
    config.k = 0 =>
        /\ pc \in SamplePcs => votes = <<>>
        /\ VotingReturned =>
              /\ Len(votes) = 1
              /\ action = ActionOf(votes[1])

\* C34 witness: execute_task with k = 0 has appended a winner that one
\* counted sample decided.
C34_Witness ==
    /\ config.k = 0
    /\ pc = "fold"
    /\ Len(votes) = 1
    /\ roundCalls = 1
    /\ actions # <<>>
    /\ actions[Len(actions)] = ActionOf(votes[1])

\* generate_solution is running or has returned.
InGenerate == pc \in {"gs_call", "gs_sample", "gs_assign", "gs_return", "gs_returned"}

\* C35 (state part): generate_solution runs its rounds in order, the list
\* holds the winners of the rounds run so far in order, every oracle call of
\* a round is made with the state the loop holds, and the list returned has exactly
\* num_steps entries.
C35_RoundsInOrder ==
    InGenerate =>
        /\ Len(actions) = step
        /\ actions = (IF pc = "gs_assign" THEN Prefix(winners, step) ELSE winners)
        /\ pc = "gs_assign" => (Len(winners) = step + 1 /\ winners[step + 1] = action)
        /\ (pc \in {"gs_sample", "gs_assign"} /\ roundCalls > 0) =>
              call_state = current_state
        /\ pc \in {"gs_call", "gs_sample", "gs_assign"} => step < config.estimated_steps
        /\ (pc = "gs_returned" /\ config.estimated_steps >= 0) =>
              Len(actions) = config.estimated_steps

\* C35 (step part): the state the loop holds after round n is the
\* next_state round n returned, and the entry appended is its winner.
C35_StateHandedToNextRound ==
    (pc = "gs_assign" /\ pc' # "gs_assign") =>
        /\ current_state' = next_state
        /\ actions' = Append(actions, action)
        /\ step' = step + 1

\* C35: generate_solution runs exactly num_steps voting rounds in order,
\* passes to round n+1 the next_state round n returned, and returns a list
\* of exactly num_steps actions whose n-th entry is the winner of round n.
C35_GenerateSolution == []C35_RoundsInOrder /\ [][C35_StateHandedToNextRound]_vars

\* C35 witness: generate_solution has returned two actions, and the second
\* round was called with the state the first round returned.
C35_Witness ==
    /\ pc = "gs_returned"
    /\ config.estimated_steps = 2
    /\ Len(actions) = 2
    /\ actions = winners
    /\ call_state # InitialGenState
    /\ current_state = next_state

\* main has returned an exit code.
MainReturned == exit_code # -1

\* execute_task ran its loop to the end: it was not interrupted and every
\* step of range(num_steps) has a winner.
CompletedEveryStep ==
    /\ pc = "returned"
    /\ intAt = "none"
    /\ result.completed
    /\ config.estimated_steps >= 0 => Len(result.actions) = config.estimated_steps

\* C36: main returns 0 exactly when the run completed every step or the user
\* declined at the prompt, and 1 when the configuration fails to load,
\* execute_task raises ValueError, or the run was interrupted; when the
\* user declines execute_task is never called and no oracle call is made;
\* the results file is written only after execute_task returned a result.
C36_ExitCodes ==
    /\ exit_code \in {-1, 0, 1}
    /\ exit_code = 0 <=> (pc = "cancelled" \/ (saved /\ CompletedEveryStep))
    /\ exit_code = 1 <=>
          \/ pc = "config_error"
          \/ pc = "value_error" /\ exc = "ValueError"
          \/ saved /\ pc = "returned" /\ intAt # "none" /\ ~result.completed
    /\ pc = "cancelled" =>
          /\ result = NoResult
          /\ ~sampled
          /\ roundCalls = 0
          /\ sel_calls = 0
          /\ response = NoResponse
          /\ winners = <<>>
          /\ states = <<>>
          /\ ~saved
    /\ saved => (pc = "returned" /\ result # NoResult)
    /\ pc \in {"config_error", "value_error", "raised"} => ~saved

\* C36 witness: a run interrupted after a first winner was appended has
\* had its partial result saved, and main returned 1.
C36_Witness ==
    /\ MainReturned
    /\ exit_code = 1
    /\ saved
    /\ intAt # "none"
    /\ result.actions # <<>>
    /\ ~result.completed

\* The k the claim tabulates for n estimated steps.
TabulatedK(n) ==
    IF n < 100 THEN 2 ELSE IF n < 1000 THEN 3 ELSE IF n < 10000 THEN 4 ELSE 5

\* C37: estimate_parameters recommends k = 2 for fewer than 100 estimated
\* steps, 3 for fewer than 1000, 4 for fewer than 10000 and 5 otherwise; the
\* recommended k is between 2 and 5, never below 1, and never decreases
\* when the estimated step count grows.
C37_RecommendedK ==
    /\ \A e \in estimates :
          /\ e.estimated_steps =
                (IF e.decomposition.has THEN e.decomposition.estimated_steps ELSE 100)
          /\ e.recommended_k = TabulatedK(e.estimated_steps)
          /\ e.recommended_k \in 2..5
          /\ e.recommended_k >= 1
    /\ \A e, f \in estimates :
          e.estimated_steps <= f.estimated_steps => e.recommended_k <= f.recommended_k

\* C37 witness: 99 steps gave k = 2, 100 steps gave k = 3 and 10000 steps
\* gave k = 5.
C37_Witness ==
    /\ \E e \in estimates : e.estimated_steps = 99 /\ e.recommended_k = 2
    /\ \E e \in estimates : e.estimated_steps = 100 /\ e.recommended_k = 3
    /\ \E e \in estimates : e.estimated_steps = 10000 /\ e.recommended_k = 5

\* ---- one round of do_voting whose oracle settles on one response ----

\* generate_solution with one step: a single call of do_voting, k >= 1, the
\* oracle free to answer anything until it settles.
SettleInit ==
    /\ GenInit
    /\ config.k >= 1
    /\ config.estimated_steps = 1
    /\ oracle = NoResponse

\* The counted votes response r still needs to win the round by k.
VotesNeeded(r) ==
    LET a == ActionKey(parse_action_from_response(r))
    IN  BestOther(votes, a) + config.k - CountIn(votes, a)

\* From here on the model answers r, a response that is not flagged, on
\* every call (the point of the round after which the oracle is constant).
\* The point is taken where the votes r needs are within MaxVotes.
Settle(r) ==
    /\ pc = "gs_sample"
    /\ oracle = NoResponse
    /\ ~checker(check_fn, r)
    /\ Len(votes) + VotesNeeded(r) <= MaxVotes
    /\ oracle' = r
    /\ UNCHANGED <<saved, estimates, model_fn, check_fn, call_state, progress, exit_code,
                   validated, config, client, failed, pc, step, step_type_name, vote_counts,
                   votes, roundCalls, sampled, response, action, actions, current_state,
                   result, exc, intAt, winners, reply, sel_calls, next_state, states>>

SettleNext ==
    \/ GenStart
    \/ GenCall
    \/ \E r \in Responses : Sample(r)
    \/ \E r \in Responses : Settle(r)
    \/ GenAssign
    \/ GenReturn

\* The interpreter keeps running the loop: a call that can be made is made.
SettleSpec == SettleInit /\ [][SettleNext]_vars /\ WF_vars(SettleNext)

\* C32: if from some point of a round on every oracle response is
\* non-flagged and yields the same action a, then for every k >= 1 and every
\* tally reached before that point do_voting eventually returns, and the
\* winner it returns is a.
C32_SettledRoundReturns ==
    (pc = "gs_sample" /\ oracle # NoResponse)
        ~> (/\ pc = "gs_returned"
            /\ actions = <<parse_action_from_response(oracle)>>)

====
